---------------------------- MODULE Spec2Model ----------------------------
(***************************************************************************)
(* Model of the voice dialogue loop of conversational_assistant.py:       *)
(* listen_once (frame queue, recogniser, per-utterance timeout), the      *)
(* generation client (query_ollama_http, query_ollama_cli, query_ollama), *)
(* clean_reply, build_prompt and the loop of main.                        *)
(*                                                                         *)
(* Texts are TLA+ strings; a character is a string of length one.         *)
(***************************************************************************)
EXTENDS Integers, Sequences, FiniteSets, TLC

(***************************************************************************)
(* Bounds of the model.                                                    *)
(***************************************************************************)
\* user turns a run may append to the history
MaxTurns == 1
\* frames the audio callback may push during one listen_once
MaxFrames == 2
\* poll intervals (0.5 s) the clock may advance during one listen_once
MaxElapsed == 3
\* lines of one streamed HTTP response
MaxFrags == 3
\* the positive --timeout value tried, in poll intervals
ListenTimeout == 1
\* longest history handed to build_prompt
MaxHistory == 12
\* most chunks a text handed to clean_reply is put together from
MaxChunks == 3
\* most members of an envelope handed to clean_reply
MaxMembers == 2
\* most words of a reference or a hypothesis handed to wer
MaxWords == 3

(***************************************************************************)
(* Program constants.                                                      *)
(***************************************************************************)
\* history[-10:] in build_prompt
PromptTurns == 10

Apology == "Sorry, I couldn't produce a response."
CliNotFoundSentinel == "[ERROR: ollama CLI not found]"

(***************************************************************************)
(* Strings.                                                                *)
(***************************************************************************)
Ch(s, i) == SubSeq(s, i, i)

\* does s hold p at position i
StartsWithAt(s, i, p) ==
    /\ i >= 1
    /\ i + Len(p) - 1 <= Len(s)
    /\ SubSeq(s, i, i + Len(p) - 1) = p

\* \w of the re module, for the characters the model's texts use
WordChars ==
    {"a","b","c","d","e","f","g","h","i","j","k","l","m","n","o","p","q","r",
     "s","t","u","v","w","x","y","z",
     "A","B","C","D","E","F","G","H","I","J","K","L","M","N","O","P","Q","R",
     "S","T","U","V","W","X","Y","Z",
     "0","1","2","3","4","5","6","7","8","9","_"}

\* \s of the re module and the characters str.strip() removes
SpaceChars == {" ", "\t", "\n", "\r"}

RECURSIVE LStrip(_)
LStrip(s) ==
    IF s # "" /\ Ch(s, 1) \in SpaceChars THEN LStrip(SubSeq(s, 2, Len(s))) ELSE s

RECURSIVE RStrip(_)
RStrip(s) ==
    IF s # "" /\ Ch(s, Len(s)) \in SpaceChars
    THEN RStrip(SubSeq(s, 1, Len(s) - 1))
    ELSE s

\* str.strip()
Strip(s) == RStrip(LStrip(s))

\* ''.join(pieces)
RECURSIVE Join(_)
Join(pieces) ==
    IF pieces = <<>> THEN "" ELSE Head(pieces) \o Join(Tail(pieces))

\* first position >= i of s that holds no character of cs (Len(s) + 1 if none)
RECURSIVE SkipChars(_, _, _)
SkipChars(s, i, cs) ==
    IF i <= Len(s) /\ Ch(s, i) \in cs THEN SkipChars(s, i + 1, cs) ELSE i

(***************************************************************************)
(* json.loads, for documents that are a scalar (string without escapes,   *)
(* true, false, null, unsigned integer) or one object whose values are    *)
(* such scalars.  Every other text is reported as a parse failure; the    *)
(* texts the model draws are either in this grammar or invalid JSON.      *)
(***************************************************************************)
JsonSpace == {" ", "\t", "\n", "\r"}
Digits == {"0","1","2","3","4","5","6","7","8","9"}

JFail == [ok |-> FALSE, t |-> "none", s |-> "", pairs |-> <<>>, next |-> 0]
JScalar(t, s, next) == [ok |-> TRUE, t |-> t, s |-> s, pairs |-> <<>>, next |-> next]

\* position of the quote closing a string whose content starts at i, or 0
RECURSIVE FindClose(_, _)
FindClose(s, i) ==
    IF i > Len(s) THEN 0
    ELSE IF Ch(s, i) = "\"" THEN i
    ELSE IF Ch(s, i) \in {"\\", "\n", "\t", "\r"} THEN 0
    ELSE FindClose(s, i + 1)

ParseScalar(s, i) ==
    IF i > Len(s) THEN JFail
    ELSE IF Ch(s, i) = "\"" THEN
        LET j == FindClose(s, i + 1) IN
        IF j = 0 THEN JFail ELSE JScalar("str", SubSeq(s, i + 1, j - 1), j + 1)
    ELSE IF StartsWithAt(s, i, "true") THEN JScalar("true", "", i + 4)
    ELSE IF StartsWithAt(s, i, "false") THEN JScalar("false", "", i + 5)
    ELSE IF StartsWithAt(s, i, "null") THEN JScalar("null", "", i + 4)
    ELSE IF Ch(s, i) = "0" THEN JScalar("num", "0", i + 1)
    ELSE IF Ch(s, i) \in Digits THEN
        LET j == SkipChars(s, i, Digits) IN JScalar("num", SubSeq(s, i, j - 1), j)
    ELSE JFail

\* the members of an object from position i (a key), acc the pairs read so far
RECURSIVE ParseMembers(_, _, _)
ParseMembers(s, i, acc) ==
    LET key == ParseScalar(s, i) IN
    IF ~key.ok \/ key.t # "str" THEN JFail
    ELSE
        LET c == SkipChars(s, key.next, JsonSpace) IN
        IF ~StartsWithAt(s, c, ":") THEN JFail
        ELSE
            LET val == ParseScalar(s, SkipChars(s, c + 1, JsonSpace)) IN
            IF ~val.ok THEN JFail
            ELSE
                LET e    == SkipChars(s, val.next, JsonSpace)
                    more == Append(acc, [k |-> key.s, t |-> val.t, s |-> val.s])
                IN  IF StartsWithAt(s, e, "}")
                    THEN [ok |-> TRUE, t |-> "dict", s |-> "", pairs |-> more,
                          next |-> e + 1]
                    ELSE IF StartsWithAt(s, e, ",")
                    THEN ParseMembers(s, SkipChars(s, e + 1, JsonSpace), more)
                    ELSE JFail

ParseValue(s, i) ==
    IF StartsWithAt(s, i, "{") THEN
        LET j == SkipChars(s, i + 1, JsonSpace) IN
        IF StartsWithAt(s, j, "}")
        THEN [ok |-> TRUE, t |-> "dict", s |-> "", pairs |-> <<>>, next |-> j + 1]
        ELSE ParseMembers(s, j, <<>>)
    ELSE ParseScalar(s, i)

\* json.loads(s): ok = FALSE stands for the exception it raises
JsonLoads(s) ==
    LET v == ParseValue(s, SkipChars(s, 1, JsonSpace)) IN
    IF v.ok /\ SkipChars(s, v.next, JsonSpace) > Len(s) THEN v ELSE JFail

\* isinstance(obj, dict)
IsDict(obj) == obj.ok /\ obj.t = "dict"

\* k in obj
HasKey(obj, k) == \E n \in 1..Len(obj.pairs) : obj.pairs[n].k = k

\* obj[k]: the last member with that key wins
Get(obj, k) ==
    LET n == CHOOSE m \in 1..Len(obj.pairs) :
                 /\ obj.pairs[m].k = k
                 /\ \A q \in (m + 1)..Len(obj.pairs) : obj.pairs[q].k # k
    IN  obj.pairs[n]

\* bool(v) of a parsed scalar
Truthy(v) ==
    \/ v.t = "true"
    \/ v.t = "str" /\ v.s # ""
    \/ v.t = "num" /\ v.s # "0"

\* str(v) of a parsed scalar
PyStr(v) ==
    CASE v.t = "str"   -> v.s
      [] v.t = "num"   -> v.s
      [] v.t = "true"  -> "True"
      [] v.t = "false" -> "False"
      [] OTHER         -> "None"

(***************************************************************************)
(* clean_reply.                                                            *)
(***************************************************************************)
EnvelopeKeys == <<"response", "output", "text", "result">>
RoleLabels == {"AI", "Assistant", "User", "System"}

\* Unwrap that prefers the last of the keys
UnwrapLastKey(obj, text) ==
    LET hits == {n \in 1..Len(EnvelopeKeys) :
                    /\ HasKey(obj, EnvelopeKeys[n])
                    /\ Get(obj, EnvelopeKeys[n]).t = "str"}
    IN  IF hits = {} THEN text
        ELSE Get(obj, EnvelopeKeys[CHOOSE n \in hits : \A m \in hits : n >= m]).s

\* for k in (...): if k in obj and isinstance(obj[k], str): text = obj[k]; break
Unwrap(obj, text) ==
    LET hits == {n \in 1..Len(EnvelopeKeys) :
                    /\ HasKey(obj, EnvelopeKeys[n])
                    /\ Get(obj, EnvelopeKeys[n]).t = "str"}
    IN  IF hits = {} THEN text
        ELSE Get(obj, EnvelopeKeys[CHOOSE n \in hits : \A m \in hits : n <= m]).s

\* length of the match of (?:AI|Assistant|User|System): at position i, or 0
LabelAt(s, i) ==
    LET m == {l \in RoleLabels : StartsWithAt(s, i, l \o ":")} IN
    IF m = {} THEN 0 ELSE Len(CHOOSE l \in m : TRUE) + 1

\* ^ under re.MULTILINE
AtLineStart(s, i) == i = 1 \/ Ch(s, i - 1) = "\n"

\* \b in front of a word character
AtWordStart(s, i) == i = 1 \/ Ch(s, i - 1) \notin WordChars

\* re.sub(r'^(?:AI|Assistant|User|System):\s*', '', text, flags=re.MULTILINE)
RECURSIVE SubLineLabels(_, _)
SubLineLabels(s, i) ==
    IF i > Len(s) THEN ""
    ELSE IF LabelAt(s, i) > 0 /\ AtLineStart(s, i)
    THEN SubLineLabels(s, SkipChars(s, i + LabelAt(s, i), SpaceChars))
    ELSE Ch(s, i) \o SubLineLabels(s, i + 1)

\* re.sub(r'\b(?:User|Assistant|AI|System):\s*', '', text)
RECURSIVE SubInlineLabels(_, _)
SubInlineLabels(s, i) ==
    IF i > Len(s) THEN ""
    ELSE IF LabelAt(s, i) > 0 /\ AtWordStart(s, i)
    THEN SubInlineLabels(s, SkipChars(s, i + LabelAt(s, i), SpaceChars))
    ELSE Ch(s, i) \o SubInlineLabels(s, i + 1)

\* SubNewlines that leaves runs of newlines as they are
SubNewlinesKept(s, i) == SubSeq(s, i, Len(s))

\* re.sub(r'\n{2,}', '\n', text)
RECURSIVE SubNewlines(_, _)
SubNewlines(s, i) ==
    IF i > Len(s) THEN ""
    ELSE IF Ch(s, i) = "\n"
    THEN "\n" \o SubNewlines(s, SkipChars(s, i, {"\n"}))
    ELSE Ch(s, i) \o SubNewlines(s, i + 1)

\* re.sub(r'[ \t]{2,}', ' ', text)
RECURSIVE SubBlanks(_, _)
SubBlanks(s, i) ==
    IF i > Len(s) THEN ""
    ELSE IF Ch(s, i) \in {" ", "\t"}
    THEN LET j == SkipChars(s, i, {" ", "\t"}) IN
         (IF j - i >= 2 THEN " " ELSE Ch(s, i)) \o SubBlanks(s, j)
    ELSE Ch(s, i) \o SubBlanks(s, i + 1)

clean_reply(text) ==
    IF text = "" THEN text
    ELSE
        LET obj == JsonLoads(text)
            t1  == IF IsDict(obj) THEN Unwrap(obj, text) ELSE text
            t2  == SubLineLabels(t1, 1)
            t3  == SubInlineLabels(t2, 1)
            t4  == SubNewlines(t3, 1)
            t5  == SubBlanks(t4, 1)
        IN  Strip(t5)

(***************************************************************************)
(* build_prompt.                                                           *)
(***************************************************************************)
\* str.capitalize() of a lower-case role name
Capitalize(w) ==
    IF w = "" THEN ""
    ELSE (CASE Ch(w, 1) = "u" -> "U"
            [] Ch(w, 1) = "a" -> "A"
            [] OTHER          -> Ch(w, 1)) \o SubSeq(w, 2, Len(w))

\* LastTurns that keeps the whole history
LastTurnsAll(h, n) == h

\* history[-n:]
LastTurns(h, n) == IF Len(h) <= n THEN h ELSE SubSeq(h, Len(h) - n + 1, Len(h))

\* "\n".join(out)
RECURSIVE JoinLines(_)
JoinLines(out) ==
    IF out = <<>> THEN ""
    ELSE IF Len(out) = 1 THEN Head(out)
    ELSE Head(out) \o "\n" \o JoinLines(Tail(out))

PromptLines(h, user_text) ==
    LET last == LastTurns(h, PromptTurns) IN
    [n \in 1..Len(last) |-> Capitalize(last[n].role) \o ": " \o last[n].text]
        \o <<"User: " \o user_text, "Assistant:">>

build_prompt(h, user_text) == JoinLines(PromptLines(h, user_text))

(***************************************************************************)
(* wer.py: _edit_distance and wer.  dp is kept as the sequence of its rows, *)
(* row i at position i + 1 and column j at position j + 1.                 *)
(***************************************************************************)
\* first position >= i of s that holds a character of cs (Len(s) + 1 if none)
RECURSIVE FindChars(_, _, _)
FindChars(s, i, cs) ==
    IF i <= Len(s) /\ Ch(s, i) \notin cs THEN FindChars(s, i + 1, cs) ELSE i

\* s.split() from position i on
RECURSIVE SplitFrom(_, _)
SplitFrom(s, i) ==
    LET j == SkipChars(s, i, SpaceChars)
        k == FindChars(s, j, SpaceChars)
    IN  IF j > Len(s) THEN <<>>
        ELSE <<SubSeq(s, j, k - 1)>> \o SplitFrom(s, k)

\* text.strip().split() if text.strip() else []
WordsOf(text) == IF Strip(text) = "" THEN <<>> ELSE SplitFrom(Strip(text), 1)

\* min(substitute, insert, delete)
Min3(a, b, c) ==
    IF a <= b /\ a <= c THEN a ELSE IF b <= c THEN b ELSE c

\* DpCell without the insert alternative
DpCellNoInsert(same, diag, left, up) ==
    IF same THEN diag ELSE Min3(diag + 1, up + 1, up + 1)

\* dp[i][j] from dp[i-1][j-1], dp[i][j-1] and dp[i-1][j]
DpCell(same, diag, left, up) ==
    IF same THEN diag ELSE Min3(diag + 1, left + 1, up + 1)

\* row i of dp from column j on: prev is row i - 1, acc the columns before j
RECURSIVE DpRow(_, _, _, _, _)
DpRow(prev, ref_word, hyp_words, j, acc) ==
    IF j > Len(hyp_words) THEN acc
    ELSE DpRow(prev, ref_word, hyp_words, j + 1,
               Append(acc, DpCell(ref_word = hyp_words[j],
                                  prev[j], acc[j], prev[j + 1])))

\* the rows of dp from row i on: rows holds rows 0 .. i - 1
RECURSIVE DpRows(_, _, _, _)
DpRows(ref_words, hyp_words, i, rows) ==
    IF i > Len(ref_words) THEN rows
    ELSE DpRows(ref_words, hyp_words, i + 1,
                Append(rows, DpRow(rows[i], ref_words[i], hyp_words, 1, <<i>>)))

\* dp after the two initialising loops and the filling loop
DpTable(ref_words, hyp_words) ==
    DpRows(ref_words, hyp_words, 1,
           <<[j \in 1..(Len(hyp_words) + 1) |-> j - 1]>>)

\* the backtracking loop from cell (i, j) with the counts c so far
RECURSIVE Backtrack(_, _, _, _, _, _)
Backtrack(ref_words, hyp_words, dp, i, j, c) ==
    IF ~(i > 0 \/ j > 0) THEN c
    ELSE IF i > 0 /\ j > 0 /\ ref_words[i] = hyp_words[j]
    THEN Backtrack(ref_words, hyp_words, dp, i - 1, j - 1, c)
    ELSE IF i > 0 /\ j > 0 /\ dp[i + 1][j + 1] = dp[i][j] + 1
    THEN Backtrack(ref_words, hyp_words, dp, i - 1, j - 1,
                   [c EXCEPT !.S = @ + 1])
    ELSE IF j > 0 /\ dp[i + 1][j + 1] = dp[i + 1][j] + 1
    THEN Backtrack(ref_words, hyp_words, dp, i, j - 1, [c EXCEPT !.I = @ + 1])
    ELSE Backtrack(ref_words, hyp_words, dp, i - 1, j, [c EXCEPT !.D = @ + 1])

\* _edit_distance(ref_words, hyp_words): the counts (S, D, I)
edit_distance(ref_words, hyp_words) ==
    Backtrack(ref_words, hyp_words, DpTable(ref_words, hyp_words),
              Len(ref_words), Len(hyp_words), [S |-> 0, D |-> 0, I |-> 0])

\* wer(reference, hypothesis): the counts and the value num / den, where
\* 0 / 1 stands for 0.0 and 1 / 0 for float('inf')
wer(ref_text, hyp_text) ==
    LET ref_words == WordsOf(ref_text)
        hyp_words == WordsOf(hyp_text)
        c         == edit_distance(ref_words, hyp_words)
    IN  IF Len(ref_words) = 0
        THEN [S |-> 0, D |-> 0, I |-> 0,
              num |-> IF Len(hyp_words) = 0 THEN 0 ELSE 1,
              den |-> IF Len(hyp_words) = 0 THEN 1 ELSE 0]
        ELSE [S |-> c.S, D |-> c.D, I |-> c.I,
              num |-> c.S + c.D + c.I, den |-> Len(ref_words)]

(***************************************************************************)
(* The generation client.                                                  *)
(***************************************************************************)
\* HttpLineStep that goes on reading after a done fragment
HttpLineStepNoBreak(pcs, raw) ==
    IF raw = "" THEN [pieces |-> pcs, brk |-> FALSE]
    ELSE
        LET obj == JsonLoads(raw) IN
        IF ~obj.ok THEN [pieces |-> Append(pcs, raw), brk |-> FALSE]
        ELSE
            [pieces |->
                IF IsDict(obj) /\ HasKey(obj, "response")
                THEN Append(pcs,
                            IF Truthy(Get(obj, "response"))
                            THEN PyStr(Get(obj, "response"))
                            ELSE "")
                ELSE pcs,
             brk |-> FALSE]

\* HttpLineStep that skips a line that is not JSON
HttpLineStepSkipRaw(pcs, raw) ==
    IF raw = "" THEN [pieces |-> pcs, brk |-> FALSE]
    ELSE
        LET obj == JsonLoads(raw) IN
        IF ~obj.ok THEN [pieces |-> pcs, brk |-> FALSE]
        ELSE
            [pieces |->
                IF IsDict(obj) /\ HasKey(obj, "response")
                THEN Append(pcs,
                            IF Truthy(Get(obj, "response"))
                            THEN PyStr(Get(obj, "response"))
                            ELSE "")
                ELSE pcs,
             brk |-> IsDict(obj) /\ HasKey(obj, "done") /\ Truthy(Get(obj, "done"))]

\* one pass of the loop over resp.iter_lines(): the pieces after the line raw
\* and whether the loop breaks on it
HttpLineStep(pcs, raw) ==
    IF raw = "" THEN [pieces |-> pcs, brk |-> FALSE]
    ELSE
        LET obj == JsonLoads(raw) IN
        IF ~obj.ok THEN [pieces |-> Append(pcs, raw), brk |-> FALSE]
        ELSE
            [pieces |->
                IF IsDict(obj) /\ HasKey(obj, "response")
                THEN Append(pcs,
                            IF Truthy(Get(obj, "response"))
                            THEN PyStr(Get(obj, "response"))
                            ELSE "")
                ELSE pcs,
             brk |-> IsDict(obj) /\ HasKey(obj, "done") /\ Truthy(Get(obj, "done"))]

\* return ''.join(pieces).strip()
HttpReturn(pcs) == Strip(Join(pcs))

\* CliResult that lets FileNotFoundError leave the function
CliResultNotFoundRaises(o) ==
    CASE o.kind = "notfound" -> [raised |-> "FileNotFoundError", value |-> ""]
      [] o.kind = "timeout"  -> [raised |-> "TimeoutExpired", value |-> ""]
      [] o.kind = "exit" /\ o.code = 0 ->
            [raised |-> "none",
             value  |-> IF Strip(o.stdout) # "" THEN Strip(o.stdout)
                        ELSE Strip(o.stderr)]
      [] OTHER -> [raised |-> "none", value |-> Strip(o.stdout \o o.stderr)]

\* query_ollama_cli on one outcome of subprocess.run: the value returned, or
\* the exception that leaves the function
CliResult(o) ==
    CASE o.kind = "notfound" -> [raised |-> "none", value |-> CliNotFoundSentinel]
      [] o.kind = "timeout"  -> [raised |-> "TimeoutExpired", value |-> ""]
      [] o.kind = "exit" /\ o.code = 0 ->
            [raised |-> "none",
             value  |-> IF Strip(o.stdout) # "" THEN Strip(o.stdout)
                        ELSE Strip(o.stderr)]
      [] OTHER -> [raised |-> "none", value |-> Strip(o.stdout \o o.stderr)]

\* FallbackTaken that also falls back on an empty HTTP result
FallbackOnEmpty(raised, result) == raised \/ result = ""

\* query_ollama: the except clause runs the CLI exactly when the HTTP path raised
FallbackTaken(raised, result) == raised

\* FallbackResult that keeps the text of the failed attempt
FallbackResultMerged(partial, cli) == partial \o cli

\* query_ollama: what is returned once the HTTP path raised, partial the text
\* the failed attempt had aggregated and cli the CLI's return value
FallbackResult(partial, cli) == cli

(***************************************************************************)
(* Inputs.                                                                 *)
(***************************************************************************)
\* texts a final recognition result may carry
RecognizedTexts == {"", "hi"}

\* lines a streamed response may hold
Lines ==
    {"{\"response\":\"Hel\"}",
     "{\"response\":\"lo\"}",
     "{\"response\":\" \"}",
     "{\"response\":null}",
     "{\"done\":true}",
     "{\"response\":\"!\",\"done\":true}",
     "ping",
     ""}

\* every response of at most MaxFrags lines
AllScripts == UNION {[1..n -> Lines] : n \in 0..MaxFrags}

\* the responses the dialogue loop is run against
LoopScripts ==
    {<<>>,
     <<"{\"response\":\"Hel\"}", "{\"response\":\"lo\"}", "{\"done\":true}">>,
     <<"{\"response\":\"User:\"}">>}

\* outcomes of subprocess.run(["ollama", "query", model, prompt], timeout=60)
CliOutcomes ==
    {[kind |-> "notfound", code |-> 0, stdout |-> "", stderr |-> ""],
     [kind |-> "timeout",  code |-> 0, stdout |-> "", stderr |-> ""],
     [kind |-> "exit", code |-> 0, stdout |-> "ok\n", stderr |-> ""],
     [kind |-> "exit", code |-> 0, stdout |-> "", stderr |-> "warn\n"],
     [kind |-> "exit", code |-> 0, stdout |-> "", stderr |-> ""],
     [kind |-> "exit", code |-> 1, stdout |-> "", stderr |-> "boom\n"],
     [kind |-> "exit", code |-> 1, stdout |-> "", stderr |-> ""]}

(***************************************************************************)
(* The dialogue loop.                                                      *)
(***************************************************************************)
\* SkipsTurn without the test
SkipsTurnNever(text) == FALSE

\* if not user_text: continue
SkipsTurn(text) == text = ""

\* ApologyOr without the substitution
ApologyNever(r) == r

\* if not reply: reply = "Sorry, I couldn't produce a response."
ApologyOr(r) == IF r = "" THEN Apology ELSE r

\* AppendTurn that writes over the last turn instead of adding one
AppendTurnOver(h, role, text) ==
    IF h = <<>> THEN <<[role |-> role, text |-> text]>>
    ELSE [h EXCEPT ![Len(h)] = [role |-> role, text |-> text]]

\* history.append({'role': role, 'text': text})
AppendTurn(h, role, text) == Append(h, [role |-> role, text |-> text])

\* PromptOfTurn with the prompt built before the user turn is appended
PromptOfTurnBefore(h, user_text) == build_prompt(h, user_text)

\* history.append({'role': 'user', ...}); build_prompt(history, user_text)
PromptOfTurn(h, user_text) ==
    build_prompt(AppendTurn(h, "user", user_text), user_text)

\* Sanitized that never cleans
SanitizedNever(r, no_clean) == r

\* if not args.no_clean: reply = clean_reply(reply)
Sanitized(r, no_clean) == IF no_clean THEN r ELSE clean_reply(r)

\* TimedOut without the test that a timeout is set
TimedOutUnset(t, e) == e > t

\* if timeout and (time.time() - start) > timeout
TimedOut(t, e) == t # 0 /\ e > t

\* QPut on a queue of one slot that drops what does not fit
QPutBounded(q, data) == IF Len(q) >= 1 THEN q ELSE Append(q, data)

\* q.put(data) on the unbounded queue.Queue(): data joins the tail
QPut(q, data) == Append(q, data)

\* q.get(): the head leaves the queue
QGet(q) == [data |-> Head(q), rest |-> Tail(q)]

\* TtsFatal with an exception of tts_say left uncaught
TtsFatalOnRaise(raised) == raised

\* try: tts_say(reply) / except Exception: print: no outcome leaves the loop
TtsFatal(raised) == FALSE

VARIABLES
    pc,          \* where the main context is
    timeout,     \* args.timeout in poll intervals, 0 for None
    noClean,     \* args.no_clean
    history,     \* history of main
    userText,    \* what the last listen_once returned
    listenExit,  \* how the last listen_once ended
    queue,       \* q of listen_once
    pushed,      \* frames the callback pushed during this listen_once
    elapsed,     \* time.time() - start, in poll intervals
    waited,      \* poll intervals the pending q.get has waited
    prompt,      \* prompt of main
    script,      \* lines the HTTP response has yet to deliver
    delivered,   \* lines iter_lines() has yielded
    pieces,      \* pieces of query_ollama_http
    httpCalls,   \* calls of query_ollama_http in this turn
    cliCalls,    \* calls of query_ollama_cli in this turn
    httpRaised,  \* query_ollama_http raised in this turn
    cliOutcome,  \* how subprocess.run ended in this turn
    cliValue,    \* what query_ollama_cli returned in this turn
    reply,       \* reply of main
    spoken,      \* the text last passed to tts_say
    crash,       \* the exception that left main uncaught
    fed,         \* frames handed to rec.AcceptWaveform by this listen_once
    lost,        \* frames left in q when the last listen_once returned
    ttsRaised,   \* the last tts_say raised
    cleanParts,  \* chunks the text of a call of clean_reply is made of
    cleanMembers, \* members of the object that text is, if it was made as one
    cleanIn,     \* text of a call of clean_reply
    cleanOut,    \* what that call returned
    cleanTwice,  \* clean_reply of what it returned
    reference,   \* reference of a call of wer
    hypothesis,  \* hypothesis of that call
    werOut       \* (S, D, I) of _edit_distance and the value of wer

listenVars == <<queue, pushed, elapsed, waited, fed, lost>>
fnVars == <<cleanParts, cleanMembers, cleanIn, cleanOut, cleanTwice, reference, hypothesis, werOut>>
genVars == <<script, delivered, pieces, httpCalls, cliCalls, httpRaised,
             cliOutcome, cliValue, reply>>
vars == <<pc, timeout, noClean, history, userText, listenExit, listenVars,
          prompt, genVars, spoken, crash, ttsRaised, fnVars>>

\* the variables of the function calls checked on their own, at rest
FnIdle ==
    /\ cleanParts = <<>> /\ cleanMembers = <<>>
    /\ cleanIn = "" /\ cleanOut = "" /\ cleanTwice = ""
    /\ reference = "" /\ hypothesis = ""
    /\ werOut = [S |-> 0, D |-> 0, I |-> 0, num |-> 0, den |-> 0]

GenReset ==
    /\ script = <<>> /\ delivered = <<>> /\ pieces = <<>>
    /\ httpCalls = 0 /\ cliCalls = 0 /\ httpRaised = FALSE
    /\ cliOutcome = "none" /\ cliValue = "" /\ reply = ""

\* the locals of a turn as a new turn finds them
GenResetNext ==
    /\ script' = <<>> /\ delivered' = <<>> /\ pieces' = <<>>
    /\ httpCalls' = 0 /\ cliCalls' = 0 /\ httpRaised' = FALSE
    /\ cliOutcome' = "none" /\ cliValue' = "" /\ reply' = ""

Init ==
    /\ pc = "listen_start"
    /\ timeout \in {0, ListenTimeout}
    /\ noClean \in BOOLEAN
    /\ history = <<>>
    /\ userText = ""
    /\ listenExit = "none"
    /\ queue = <<>> /\ pushed = 0 /\ elapsed = 0 /\ waited = 0
    /\ fed = <<>> /\ lost = <<>>
    /\ ttsRaised = FALSE
    /\ FnIdle
    /\ prompt = ""
    /\ GenReset
    /\ spoken = ""
    /\ crash = "none"

----------------------------------------------------------------------------
(* listen_once *)

\* the with-block is entered: the stream is open, start = time.time()
StartListen ==
    /\ pc = "listen_start"
    /\ pc' = "listening"
    /\ queue' = <<>> /\ pushed' = 0 /\ elapsed' = 0 /\ waited' = 0
    /\ fed' = <<>> /\ lost' = <<>>
    /\ ttsRaised' = FALSE
    /\ UNCHANGED <<fnVars, timeout, noClean, history, userText, listenExit, prompt,
                   genVars, spoken, crash>>

\* sd.RawInputStream raises PortAudioError: listen_once re-raises it and main
\* does not catch it
StreamOpenFails ==
    /\ pc = "listen_start"
    /\ pc' = "crashed"
    /\ crash' = "PortAudioError"
    /\ UNCHANGED <<fnVars, ttsRaised, timeout, noClean, history, userText, listenExit, listenVars,
                   prompt, genVars, spoken>>

\* callback: q.put(bytes(indata))
Callback ==
    /\ pc = "listening"
    /\ pushed < MaxFrames
    /\ queue' = QPut(queue, pushed + 1)
    /\ pushed' = pushed + 1
    /\ UNCHANGED <<fed, lost, fnVars, ttsRaised, pc, timeout, noClean, history, userText, listenExit, elapsed,
                   waited, prompt, genVars, spoken, crash>>

\* a poll interval passes while q.get waits on the empty queue.  Time is
\* counted in poll intervals; the main context takes a frame that is queued,
\* and the queue.Empty of a wait that has expired, before the next interval
\* passes, so time only advances while the main context is blocked.
Tick ==
    /\ pc = "listening"
    /\ queue = <<>>
    /\ waited = 0
    /\ elapsed < MaxElapsed
    /\ elapsed' = elapsed + 1
    /\ waited' = 1
    /\ UNCHANGED <<fed, lost, fnVars, ttsRaised, pc, timeout, noClean, history, userText, listenExit, queue,
                   pushed, prompt, genVars, spoken, crash>>

\* listen_once returns text to main, which skips the turn or appends the user
\* turn and builds the prompt; consumed are the frames the recogniser was fed
\* and left the frames that go with q
ListenReturns(text, how, consumed, left) ==
    /\ userText' = text
    /\ listenExit' = how
    /\ queue' = <<>> /\ pushed' = 0 /\ elapsed' = 0 /\ waited' = 0
    /\ fed' = consumed
    /\ lost' = left
    /\ IF SkipsTurn(text)
       THEN /\ pc' = "listen_start"
            /\ UNCHANGED <<history, prompt, genVars>>
       ELSE /\ history' = AppendTurn(history, "user", text)
            /\ prompt' = PromptOfTurn(history, text)
            /\ pc' = "query"
            /\ GenResetNext
    /\ UNCHANGED <<fnVars, ttsRaised, timeout, noClean, spoken, crash>>

\* q.get raises queue.Empty after its 0.5 s
GetEmpty ==
    /\ pc = "listening"
    /\ queue = <<>>
    /\ waited = 1
    /\ IF TimedOut(timeout, elapsed)
       THEN ListenReturns("", "timeout", fed, queue)
       ELSE /\ waited' = 0
            /\ UNCHANGED <<fed, lost, fnVars, ttsRaised, pc, timeout, noClean, history, userText, listenExit,
                           queue, pushed, elapsed, prompt, genVars, spoken, crash>>

\* q.get returns a frame and rec.AcceptWaveform(data) is false
FeedPartial ==
    /\ pc = "listening"
    /\ queue # <<>>
    /\ queue' = QGet(queue).rest
    /\ fed' = Append(fed, QGet(queue).data)
    /\ waited' = 0
    /\ UNCHANGED <<lost, fnVars, ttsRaised, pc, timeout, noClean, history, userText, listenExit, pushed,
                   elapsed, prompt, genVars, spoken, crash>>

\* q.get returns a frame and rec.AcceptWaveform(data) is true
FeedFinal ==
    /\ pc = "listening"
    /\ queue # <<>>
    /\ \E text \in RecognizedTexts :
        /\ text # "" => Len(history) < 2 * MaxTurns
        /\ ListenReturns(text, "final", Append(fed, QGet(queue).data),
                         QGet(queue).rest)

\* KeyboardInterrupt inside the try of listen_once
InterruptListening ==
    /\ pc = "listening"
    /\ ListenReturns("", "interrupt", fed, queue)

\* KeyboardInterrupt anywhere else in the try of main
InterruptMain ==
    /\ pc \in {"listen_start", "query", "stream", "cli", "generated",
               "reply_ready", "tts"}
    /\ pc' = "exited"
    /\ UNCHANGED <<fnVars, ttsRaised, timeout, noClean, history, userText, listenExit, listenVars,
                   prompt, genVars, spoken, crash>>

----------------------------------------------------------------------------
(* query_ollama *)

\* query_ollama_http returns value: query_ollama returns it, or falls back
HttpReturns(value) ==
    IF FallbackTaken(FALSE, value)
    THEN pc' = "cli" /\ UNCHANGED reply
    ELSE pc' = "generated" /\ reply' = value

\* requests.post answers and raise_for_status passes
HttpPost(scripts) ==
    /\ pc = "query"
    /\ \E s \in scripts : script' = s
    /\ httpCalls' = httpCalls + 1
    /\ pc' = "stream"
    /\ UNCHANGED <<fnVars, ttsRaised, timeout, noClean, history, userText, listenExit, listenVars,
                   prompt, delivered, pieces, cliCalls, httpRaised, cliOutcome,
                   cliValue, reply, spoken, crash>>

\* requests.post or raise_for_status raises
HttpConnectFails ==
    /\ pc = "query"
    /\ httpCalls' = httpCalls + 1
    /\ httpRaised' = TRUE
    /\ pc' = IF FallbackTaken(TRUE, "") THEN "cli" ELSE "crashed"
    /\ crash' = IF FallbackTaken(TRUE, "") THEN crash ELSE "RequestException"
    /\ UNCHANGED <<fnVars, ttsRaised, timeout, noClean, history, userText, listenExit, listenVars,
                   prompt, script, delivered, pieces, cliCalls, cliOutcome,
                   cliValue, reply, spoken>>

\* iter_lines() yields the next line
HttpLine ==
    /\ pc = "stream"
    /\ script # <<>>
    /\ LET step == HttpLineStep(pieces, Head(script)) IN
        /\ pieces' = step.pieces
        /\ IF step.brk
           THEN HttpReturns(HttpReturn(step.pieces))
           ELSE pc' = "stream" /\ UNCHANGED reply
    /\ delivered' = Append(delivered, Head(script))
    /\ script' = Tail(script)
    /\ UNCHANGED <<fnVars, ttsRaised, timeout, noClean, history, userText, listenExit, listenVars,
                   prompt, httpCalls, cliCalls, httpRaised, cliOutcome, cliValue,
                   spoken, crash>>

\* iter_lines() is exhausted
HttpEnd ==
    /\ pc = "stream"
    /\ script = <<>>
    /\ HttpReturns(HttpReturn(pieces))
    /\ UNCHANGED <<fnVars, ttsRaised, timeout, noClean, history, userText, listenExit, listenVars,
                   prompt, script, delivered, pieces, httpCalls, cliCalls,
                   httpRaised, cliOutcome, cliValue, spoken, crash>>

\* the connection fails while the response is read
HttpStreamFails ==
    /\ pc = "stream"
    /\ httpRaised' = TRUE
    /\ pc' = IF FallbackTaken(TRUE, "") THEN "cli" ELSE "crashed"
    /\ crash' = IF FallbackTaken(TRUE, "") THEN crash ELSE "RequestException"
    /\ UNCHANGED <<fnVars, ttsRaised, timeout, noClean, history, userText, listenExit, listenVars,
                   prompt, script, delivered, pieces, httpCalls, cliCalls,
                   cliOutcome, cliValue, reply, spoken>>

\* query_ollama_cli
CliRun ==
    /\ pc = "cli"
    /\ cliCalls' = cliCalls + 1
    /\ \E o \in CliOutcomes :
        LET r == CliResult(o) IN
        /\ cliOutcome' = o.kind
        /\ IF r.raised # "none"
           THEN /\ pc' = "crashed"
                /\ crash' = r.raised
                /\ UNCHANGED <<cliValue, reply>>
           ELSE /\ pc' = "generated"
                /\ cliValue' = r.value
                /\ reply' = FallbackResult(Join(pieces), r.value)
                /\ UNCHANGED crash
    /\ UNCHANGED <<fnVars, ttsRaised, timeout, noClean, history, userText, listenExit, listenVars,
                   prompt, script, delivered, pieces, httpCalls, httpRaised,
                   spoken>>

----------------------------------------------------------------------------
(* the rest of the turn *)

\* the apology replaces an empty reply
Substitute ==
    /\ pc = "generated"
    /\ reply' = ApologyOr(reply)
    /\ pc' = "reply_ready"
    /\ UNCHANGED <<fnVars, ttsRaised, timeout, noClean, history, userText, listenExit, listenVars,
                   prompt, script, delivered, pieces, httpCalls, cliCalls,
                   httpRaised, cliOutcome, cliValue, spoken, crash>>

\* the reply is cleaned unless --no-clean, and the assistant turn is appended
AppendReply ==
    /\ pc = "reply_ready"
    /\ reply' = Sanitized(reply, noClean)
    /\ history' = AppendTurn(history, "assistant", reply')
    /\ pc' = "tts"
    /\ UNCHANGED <<fnVars, ttsRaised, timeout, noClean, userText, listenExit, listenVars, prompt,
                   script, delivered, pieces, httpCalls, cliCalls, httpRaised,
                   cliOutcome, cliValue, spoken, crash>>

\* tts_say(reply) has returned (raised = FALSE) or raised an Exception
TtsDone(raised) ==
    /\ spoken' = reply
    /\ ttsRaised' = raised
    /\ IF TtsFatal(raised)
       THEN pc' = "crashed" /\ crash' = "TTSError"
       ELSE pc' = "listen_start" /\ UNCHANGED crash
    /\ UNCHANGED <<fnVars, timeout, noClean, history, userText, listenExit,
                   listenVars, prompt, genVars>>

\* tts_say(reply) speaks the reply and returns
SpeakReturns ==
    /\ pc = "tts"
    /\ TtsDone(FALSE)

\* tts_say(reply) raises; main prints "[TTS error]" and goes on
SpeakRaises ==
    /\ pc = "tts"
    /\ TtsDone(TRUE)

Next ==
    \/ StartListen
    \/ StreamOpenFails
    \/ Callback
    \/ Tick
    \/ GetEmpty
    \/ FeedPartial
    \/ FeedFinal
    \/ InterruptListening
    \/ InterruptMain
    \/ HttpPost(LoopScripts)
    \/ HttpConnectFails
    \/ HttpLine
    \/ HttpEnd
    \/ HttpStreamFails
    \/ CliRun
    \/ Substitute
    \/ AppendReply
    \/ SpeakReturns
    \/ SpeakRaises

Spec == Init /\ [][Next]_vars

(***************************************************************************)
(* One call of query_ollama, against every response of at most MaxFrags   *)
(* lines: the state main is in when it calls query_ollama for the first   *)
(* turn, and the steps of the call.                                        *)
(***************************************************************************)
GenInit ==
    /\ pc = "query"
    /\ timeout = 0
    /\ noClean = FALSE
    /\ history = <<[role |-> "user", text |-> "hi"]>>
    /\ userText = "hi"
    /\ listenExit = "final"
    /\ queue = <<>> /\ pushed = 0 /\ elapsed = 0 /\ waited = 0
    /\ fed = <<>> /\ lost = <<>>
    /\ ttsRaised = FALSE
    /\ FnIdle
    /\ prompt = build_prompt(history, "hi")
    /\ GenReset
    /\ spoken = ""
    /\ crash = "none"

GenNext ==
    \/ HttpPost(AllScripts)
    \/ HttpConnectFails
    \/ HttpLine
    \/ HttpEnd
    \/ HttpStreamFails
    \/ CliRun

GenSpec == GenInit /\ [][GenNext]_vars

(***************************************************************************)
(* build_prompt on its own: a history grows turn by turn, in any order of  *)
(* roles, and the prompt is built for it and a new user text.              *)
(***************************************************************************)
\* the loop's variables at rest
LoopIdle ==
    /\ timeout = 0 /\ noClean = FALSE
    /\ listenExit = "none"
    /\ queue = <<>> /\ pushed = 0 /\ elapsed = 0 /\ waited = 0
    /\ fed = <<>> /\ lost = <<>>
    /\ GenReset
    /\ spoken = "" /\ crash = "none" /\ ttsRaised = FALSE

\* turns a history is made of: {"role": ..., "text": ...}
PromptTurnPool ==
    {[role |-> "user", text |-> "hi"],
     [role |-> "assistant", text |-> "yo\nok"]}

\* texts of the new user turn
PromptTexts == {"", "hi"}

PromptInit ==
    /\ pc = "prompt"
    /\ history = <<>>
    /\ userText \in PromptTexts
    /\ prompt = build_prompt(history, userText)
    /\ LoopIdle
    /\ FnIdle

\* one more turn in the history, then build_prompt(history, user_text)
PromptAppend ==
    /\ pc = "prompt"
    /\ Len(history) < MaxHistory
    /\ \E turn \in PromptTurnPool, text \in PromptTexts :
        /\ history' = Append(history, turn)
        /\ userText' = text
        /\ prompt' = build_prompt(history', text)
    /\ UNCHANGED <<fnVars, ttsRaised, pc, timeout, noClean, listenExit,
                   listenVars, genVars, spoken, crash>>

PromptNext == PromptAppend

PromptSpec == PromptInit /\ [][PromptNext]_vars

(***************************************************************************)
(* clean_reply on its own: it is called on a text put together from        *)
(* chunks, on a given text, or on an object written out as JSON, and then  *)
(* on what it returned.                                                    *)
(***************************************************************************)
\* chunks of raw replies: role labels, an envelope, a word, white space
CleanChunks == {"User: ", "AI:", "{\"response\":\"x\"}", "x", " ", "\n"}

\* raw replies given whole
CleanExamples ==
    {"User: hi Assistant:  Hello   there\n\n\nfriend",
     "{\"result\": \"Hi!\"}",
     "System:\tok \t go",
     "{}",
     ""}

\* keys and values of the members of an envelope
MemberKeys == {"response", "output", "text", "result", "done"}
MemberValues ==
    {[t |-> "str", s |-> "Hi!"], [t |-> "str", s |-> "AI: a  b"],
     [t |-> "str", s |-> ""], [t |-> "num", s |-> "1"]}

\* json.dumps of a member list
RECURSIVE DumpMembers(_)
DumpMembers(ms) ==
    IF ms = <<>> THEN ""
    ELSE LET m == Head(ms)
             v == IF m.v.t = "str" THEN "\"" \o m.v.s \o "\"" ELSE m.v.s
         IN  "\"" \o m.k \o "\": " \o v
                 \o (IF Len(ms) > 1 THEN ", " ELSE "") \o DumpMembers(Tail(ms))

JsonDumps(ms) == "{" \o DumpMembers(ms) \o "}"

CleanInit ==
    /\ pc = "clean"
    /\ history = <<>> /\ userText = "" /\ prompt = ""
    /\ LoopIdle
    /\ FnIdle

\* clean_reply(text), then clean_reply of what it returned
CleanCalled(text) ==
    /\ pc' = "cleaned"
    /\ cleanIn' = text
    /\ cleanOut' = clean_reply(text)
    /\ cleanTwice' = clean_reply(cleanOut')
    /\ UNCHANGED <<reference, hypothesis, werOut, ttsRaised, timeout, noClean,
                   history, userText, listenExit, listenVars, prompt, genVars,
                   spoken, crash>>

\* one more chunk in the raw reply
CleanAppend ==
    /\ pc = "clean"
    /\ cleanMembers = <<>>
    /\ Len(cleanParts) < MaxChunks
    /\ \E c \in CleanChunks : cleanParts' = Append(cleanParts, c)
    /\ UNCHANGED <<cleanMembers, cleanIn, cleanOut, cleanTwice, reference,
                   hypothesis, werOut, ttsRaised, pc, timeout, noClean,
                   history, userText, listenExit, listenVars, prompt, genVars,
                   spoken, crash>>

\* one more member, under a new key, in the object
CleanMember ==
    /\ pc = "clean"
    /\ cleanParts = <<>>
    /\ Len(cleanMembers) < MaxMembers
    /\ \E k \in MemberKeys, v \in MemberValues :
        /\ \A n \in 1..Len(cleanMembers) : cleanMembers[n].k # k
        /\ cleanMembers' = Append(cleanMembers, [k |-> k, v |-> v])
    /\ UNCHANGED <<cleanParts, cleanIn, cleanOut, cleanTwice, reference,
                   hypothesis, werOut, ttsRaised, pc, timeout, noClean,
                   history, userText, listenExit, listenVars, prompt, genVars,
                   spoken, crash>>

\* the raw replies to clean: the object written out as JSON, the chunks put
\* together, or one of the replies given whole
CleanTexts ==
    IF cleanMembers # <<>> THEN {JsonDumps(cleanMembers)}
    ELSE IF cleanParts # <<>> THEN {Join(cleanParts)}
    ELSE CleanExamples

\* clean_reply of a raw reply
CleanCall ==
    /\ pc = "clean"
    /\ \E text \in CleanTexts : CleanCalled(text)
    /\ UNCHANGED <<cleanParts, cleanMembers>>

CleanNext ==
    \/ CleanAppend
    \/ CleanMember
    \/ CleanCall

CleanSpec == CleanInit /\ [][CleanNext]_vars

(***************************************************************************)
(* wer on its own: a reference and a hypothesis are put together word by   *)
(* word and wer is called on them.                                         *)
(***************************************************************************)
WerWords == {"hello", "world", "there"}

\* text with one more word, after a blank if it is not the first
WithWord(text, w) == IF text = "" THEN w ELSE text \o " " \o w

WerInit ==
    /\ pc = "wer"
    /\ history = <<>> /\ userText = "" /\ prompt = ""
    /\ LoopIdle
    /\ FnIdle

\* one more word in the reference
WerRefWord ==
    /\ pc = "wer"
    /\ Len(WordsOf(reference)) < MaxWords
    /\ \E w \in WerWords : reference' = WithWord(reference, w)
    /\ UNCHANGED <<cleanParts, cleanMembers, cleanIn, cleanOut, cleanTwice,
                   hypothesis, werOut, ttsRaised, pc, timeout, noClean,
                   history, userText, listenExit, listenVars, prompt, genVars,
                   spoken, crash>>

\* one more word in the hypothesis
WerHypWord ==
    /\ pc = "wer"
    /\ Len(WordsOf(hypothesis)) < MaxWords
    /\ \E w \in WerWords : hypothesis' = WithWord(hypothesis, w)
    /\ UNCHANGED <<cleanParts, cleanMembers, cleanIn, cleanOut, cleanTwice,
                   reference, werOut, ttsRaised, pc, timeout, noClean,
                   history, userText, listenExit, listenVars, prompt, genVars,
                   spoken, crash>>

\* wer(reference, hypothesis)
WerCall ==
    /\ pc = "wer"
    /\ pc' = "wer_done"
    /\ werOut' = wer(reference, hypothesis)
    /\ UNCHANGED <<cleanParts, cleanMembers, cleanIn, cleanOut, cleanTwice,
                   reference, hypothesis, ttsRaised, timeout, noClean,
                   history, userText, listenExit, listenVars, prompt, genVars,
                   spoken, crash>>

WerNext ==
    \/ WerRefWord
    \/ WerHypWord
    \/ WerCall

WerSpec == WerInit /\ [][WerNext]_vars

(***************************************************************************)
(* main over many turns: listen_once and query_ollama are taken by what    *)
(* they return, so that history grows past the turns a prompt holds.       *)
(***************************************************************************)
\* what query_ollama returns: nothing, a reply, a reply that is a role label
MainReplies == {"", "Hello", "User:"}

MainInit ==
    /\ pc = "listen_start"
    /\ noClean \in BOOLEAN
    /\ timeout = 0
    /\ history = <<>> /\ userText = "" /\ prompt = ""
    /\ listenExit = "none"
    /\ queue = <<>> /\ pushed = 0 /\ elapsed = 0 /\ waited = 0
    /\ fed = <<>> /\ lost = <<>>
    /\ GenReset
    /\ spoken = "" /\ crash = "none" /\ ttsRaised = FALSE
    /\ FnIdle

\* listen_once returns a recognized text, or '' for no speech
MainListen ==
    /\ pc = "listen_start"
    /\ \E text \in RecognizedTexts :
        /\ text # "" => Len(history) + 2 <= MaxHistory
        /\ ListenReturns(text, IF text = "" THEN "timeout" ELSE "final",
                         <<>>, <<>>)

\* query_ollama returns a reply
MainQuery ==
    /\ pc = "query"
    /\ \E r \in MainReplies : reply' = r
    /\ pc' = "generated"
    /\ UNCHANGED <<fnVars, ttsRaised, timeout, noClean, history, userText,
                   listenExit, listenVars, prompt, script, delivered, pieces,
                   httpCalls, cliCalls, httpRaised, cliOutcome, cliValue,
                   spoken, crash>>

MainNext ==
    \/ MainListen
    \/ MainQuery
    \/ Substitute
    \/ AppendReply
    \/ SpeakReturns
    \/ SpeakRaises
    \/ InterruptMain

MainSpec == MainInit /\ [][MainNext]_vars

(***************************************************************************)
(* Properties.                                                             *)
(***************************************************************************)
LastOf(seq) == seq[Len(seq)]

\* the whole response of the turn: the lines read and the lines left unread
Response == delivered \o script

\* position of the first line of ls whose done flag is true, or Len(ls)
FirstDone(ls) ==
    LET ds == {n \in 1..Len(ls) :
                  LET obj == JsonLoads(ls[n]) IN
                  IsDict(obj) /\ HasKey(obj, "done") /\ Get(obj, "done").t = "true"}
    IN  IF ds = {} THEN Len(ls) ELSE CHOOSE n \in ds : \A m \in ds : n <= m

\* the response text of a line: the string under "response" of an object
ResponseText(raw) ==
    LET obj == JsonLoads(raw) IN
    IF IsDict(obj) /\ HasKey(obj, "response") /\ Get(obj, "response").t = "str"
    THEN Get(obj, "response").s
    ELSE ""

\* a non-blank line that json.loads rejects
Unparsable(raw) == raw # "" /\ ~JsonLoads(raw).ok

\* what a line adds to the aggregate: its response text, or itself if it is
\* not JSON
Contribution(raw) == IF Unparsable(raw) THEN raw ELSE ResponseText(raw)

RECURSIVE ConcatResponses(_)
ConcatResponses(ls) ==
    IF ls = <<>> THEN "" ELSE ResponseText(Head(ls)) \o ConcatResponses(Tail(ls))

RECURSIVE ConcatContributions(_)
ConcatContributions(ls) ==
    IF ls = <<>> THEN ""
    ELSE Contribution(Head(ls)) \o ConcatContributions(Tail(ls))

\* C1: whenever listen_once returns the empty string (empty final result,
\* timeout or interrupt), main is back at the top of the loop with the history
\* unchanged, and no generation request, reply or TTS call was made.
C1_EmptyListenSkipsTurn ==
    [][(pc = "listening" /\ pc' # "listening" /\ userText' = "")
        => /\ pc' = "listen_start"
           /\ history' = history
           /\ httpCalls' = httpCalls
           /\ cliCalls' = cliCalls
           /\ reply' = reply
           /\ spoken' = spoken]_vars

\* C1 witness: after a completed turn a final result was empty and the loop is
\* about to listen again
C1_Witness ==
    /\ pc = "listen_start"
    /\ listenExit = "final"
    /\ userText = ""
    /\ Len(history) = 2

\* C2: every step that delivers a KeyboardInterrupt to the main context, in
\* listen_once or anywhere else in the loop, ends with main terminated.
C2_InterruptExits ==
    [][(InterruptListening \/ InterruptMain) => pc' = "exited"]_vars

\* C3: only an audio backend error ends the loop with an exception; whatever
\* way the fallback fails, the turn goes on.
C3_OnlyAudioErrorFatal ==
    pc = "crashed" => crash = "PortAudioError"

\* C4: with a positive timeout listen_once is not still listening once the
\* timeout and the poll interval that detects it have passed.
C4_TimeoutBoundsListen ==
    (pc = "listening" /\ timeout > 0) => elapsed <= timeout + 1

\* C5: when the HTTP path raised and query_ollama returned, the value is the
\* CLI's return value alone, whatever the failed attempt had aggregated.
C5_FallbackResultOnly ==
    (pc = "generated" /\ httpRaised) => (cliCalls = 1 /\ reply = cliValue)

\* C5 witness: the stream failed after text was aggregated and the CLI
\* printed ok
C5_Witness ==
    /\ pc = "generated"
    /\ httpRaised
    /\ Join(pieces) = "Hel"
    /\ reply = "ok"

C7_PrimaryOnceFallbackOnce ==
    /\ httpCalls <= 1
    /\ cliCalls <= 1
    /\ pc \in {"stream", "cli", "generated", "reply_ready", "tts"} => httpCalls = 1
    /\ pc = "query" => (httpCalls = 0 /\ cliCalls = 0)
    /\ pc = "cli" => (httpRaised /\ cliCalls = 0)
    /\ cliCalls = 1 => (httpCalls = 1 /\ httpRaised)
    /\ (pc \in {"generated", "reply_ready", "tts"} /\ httpRaised) => cliCalls = 1

\* C7 witness: the HTTP path returned the empty string and the CLI was not run
C7_Witness ==
    /\ pc = "generated"
    /\ ~httpRaised
    /\ reply = ""
    /\ httpCalls = 1
    /\ cliCalls = 0

\* C8 as claimed: query_ollama never returns the empty string.
C8_GenerateNeverEmpty ==
    pc = "generated" => reply # ""

\* C8 as amended: the reply main goes on with after the apology substitution
\* is never empty.
C8_ReplyNeverEmptyAfterApology ==
    pc = "reply_ready" => reply # ""

\* C8 witness: query_ollama returned nothing and the apology stands in
C8_Witness ==
    /\ pc = "reply_ready"
    /\ ~httpRaised
    /\ Join(pieces) = ""
    /\ reply = Apology

\* C9: when the HTTP path raised and the CLI is not installed, the turn raises
\* nothing, query_ollama returns the sentinel, and the sentinel is the assistant
\* turn appended and the text spoken before the loop listens again.
C9_CliNotFoundSentinel ==
    cliOutcome = "notfound" =>
        /\ crash \in {"none", "PortAudioError"}
        /\ httpRaised
        /\ pc \in {"generated", "reply_ready", "tts"} => reply = CliNotFoundSentinel
        /\ pc \in {"tts", "listen_start", "listening"} =>
               LastOf(history) = [role |-> "assistant", text |-> CliNotFoundSentinel]
        /\ pc \in {"listen_start", "listening"} => spoken = CliNotFoundSentinel

\* C9 witness: the sentinel was appended and spoken and the loop listens again
C9_Witness ==
    /\ pc = "listening"
    /\ cliOutcome = "notfound"
    /\ spoken = CliNotFoundSentinel
    /\ LastOf(history).text = CliNotFoundSentinel

Rendered(turn) ==
    (IF turn.role = "user" THEN "User" ELSE "Assistant") \o ": " \o turn.text

\* the entries the prompt is expected to have for the history and the text
ExpectedEntries ==
    LET k == IF Len(history) < 10 THEN Len(history) ELSE 10 IN
    [n \in 1..k |-> Rendered(history[Len(history) - k + n])]
        \o <<"User: " \o userText, "Assistant:">>

\* C11: the prompt built for a history and a new user text has Assistant: as
\* its last entry and before it at most 11 entries: the last
\* min(10, len(history)) turns in order as <Role>: <text>, then
\* User: <new user text>.
C11_PromptTail ==
    pc = "prompt" =>
        LET out == PromptLines(history, userText) IN
        /\ out = ExpectedEntries
        /\ LastOf(out) = "Assistant:"
        /\ Len(out) - 1 <= 11
        /\ prompt = JoinLines(ExpectedEntries)

\* C11 witness: a prompt built for a history of more than ten turns
C11_Witness ==
    /\ pc = "prompt"
    /\ Len(history) > 10
    /\ history[1] # history[2]
    /\ Len(PromptLines(history, userText)) = 12
    /\ prompt = build_prompt(history, userText)


\* C12: clean_reply of what clean_reply returned is what it returned, for
\* every text: clean_reply is idempotent.
C12_Idempotent == pc = "cleaned" => cleanTwice = cleanOut


\* the raw reply with the role labels echoed inline
EchoedReply == "User: hi Assistant:  Hello   there\n\n\nfriend"

\* C13: for the raw reply User: hi Assistant:  Hello   there\n\n\nfriend,
\* clean_reply returns Hello there\nfriend.
C13_EchoDropped ==
    (pc = "cleaned" /\ cleanIn = EchoedReply) => cleanOut = "Hello there\nfriend"

\* C13 as the code has it: only the labels User: and Assistant: go, the echoed
\* user text hi stays; runs of blanks become one blank and the three newlines
\* one.
C13_EchoLabelsDropped ==
    (pc = "cleaned" /\ cleanIn = EchoedReply)
        => cleanOut = "hi Hello there\nfriend"

\* C13 witness: clean_reply was called on that raw reply
C13_Witness ==
    /\ pc = "cleaned"
    /\ cleanIn = EchoedReply
    /\ cleanOut # cleanIn
    /\ cleanTwice = cleanOut

\* the member list holds a string under key k
StrUnder(ms, k) == \E n \in 1..Len(ms) : ms[n].k = k /\ ms[n].v.t = "str"

\* that string
ValueUnder(ms, k) ==
    ms[CHOOSE n \in 1..Len(ms) : ms[n].k = k /\ ms[n].v.t = "str"].v.s

\* the string under the first of response, output, text, result that has one
EnvelopeValue(ms) ==
    IF StrUnder(ms, "response") THEN ValueUnder(ms, "response")
    ELSE IF StrUnder(ms, "output") THEN ValueUnder(ms, "output")
    ELSE IF StrUnder(ms, "text") THEN ValueUnder(ms, "text")
    ELSE ValueUnder(ms, "result")

\* labels stripped at line starts and inline, newlines and blanks collapsed,
\* the ends trimmed
CleanSteps(t) ==
    Strip(SubBlanks(SubNewlines(SubInlineLabels(SubLineLabels(t, 1), 1), 1), 1))

\* C14: for a raw text that is one object with a string under response,
\* output, text or result, clean_reply returns the label-stripping,
\* white-space-collapsing and trimming steps applied to the string under the
\* first such key in that order; {"result": "Hi!"} gives Hi!.
C14_EnvelopeValueCleaned ==
    /\ (/\ pc = "cleaned"
        /\ cleanIn = JsonDumps(cleanMembers)
        /\ \E k \in {"response", "output", "text", "result"} :
               StrUnder(cleanMembers, k))
            => cleanOut = CleanSteps(EnvelopeValue(cleanMembers))
    /\ (pc = "cleaned" /\ cleanIn = "{\"result\": \"Hi!\"}") => cleanOut = "Hi!"

\* C14 witness: an object with strings under result and under response, in
\* that order, was cleaned to the cleaned string under response
C14_Witness ==
    /\ pc = "cleaned"
    /\ Len(cleanMembers) = 2
    /\ cleanMembers[1] = [k |-> "result", v |-> [t |-> "str", s |-> "Hi!"]]
    /\ cleanMembers[2] = [k |-> "response", v |-> [t |-> "str", s |-> "AI: a  b"]]
    /\ cleanIn = "{\"result\": \"Hi!\", \"response\": \"AI: a  b\"}"
    /\ cleanOut = "a b"


\* the frames the callback pushed first, second, ..., n-th
FramesTo(n) == [f \in 1..n |-> f]

\* C15: under every interleaving of the callback and the loop of listen_once
\* the queue is FIFO and lossless: a push is never refused and never drops a
\* frame, and the recogniser is fed the frames in the order they were pushed,
\* none skipped or repeated among those taken from the queue.
C15_QueueFifoLossless ==
    /\ fed = FramesTo(Len(fed))
    /\ pc = "listening" =>
        /\ fed \o queue = FramesTo(pushed)
        /\ pushed < MaxFrames => ENABLED Callback

\* C15 witness: the first frame was fed while the second waits in the queue
C15_Witness ==
    /\ pc = "listening"
    /\ fed = <<1>>
    /\ queue = <<2>>
    /\ pushed = 2

\* C16: every frame the callback pushed is fed to the recogniser exactly once:
\* none is fed twice, and none is left in the queue when listen_once returns,
\* be it after the frame that finalizes the utterance, on timeout or on an
\* interrupt.
C16_EveryFrameFedOnce ==
    /\ \A a, b \in 1..Len(fed) : a # b => fed[a] # fed[b]
    /\ (pc # "listening" /\ listenExit \in {"final", "timeout", "interrupt"})
            => lost = <<>>

\* a step in which AcceptWaveform reports a final result
FinalStep ==
    /\ pc = "listening" /\ pc' # "listening"
    /\ queue # <<>>
    /\ fed' = Append(fed, Head(queue))
    /\ listenExit' = "final"

\* C17: as long as the recogniser does not report a final result listen_once
\* gives no recognized text: it goes on listening with history as it is, and
\* returns only the empty string, on timeout if one is set and otherwise on
\* an interrupt only; the loop appends nothing to history.
C17_NoFinalNoText ==
    [][(pc = "listening" /\ ~FinalStep) =>
          /\ history' = history
          /\ pc' \in {"listening", "listen_start"}
          /\ pc' = "listening" => userText' = userText
          /\ pc' = "listen_start" =>
                /\ userText' = ""
                /\ listenExit' \in {"timeout", "interrupt"}
                /\ timeout = 0 => listenExit' = "interrupt"]_vars

\* C17 witness: with no timeout set two frames were fed without a final
\* result, time has passed, and listen_once still listens
C17_Witness ==
    /\ pc = "listening"
    /\ timeout = 0
    /\ Len(fed) >= 2
    /\ elapsed >= 2
    /\ history = <<>>

\* C18: history changes only by one turn appended at its end: a user turn
\* with the non-empty text of a final recognition result, before any request
\* of that turn is made, or an assistant turn with the reply of the turn after
\* the apology substitution and the cleaning; that same text is what tts_say
\* is given.
C18_HistoryOnlyFinalText ==
    [][/\ history' # history =>
            \/ /\ FinalStep
               /\ userText' # ""
               /\ history' = Append(history, [role |-> "user", text |-> userText'])
               /\ pc' = "query" /\ httpCalls' = 0 /\ cliCalls' = 0
            \/ /\ pc = "reply_ready" /\ pc' = "tts"
               /\ reply # ""
               /\ reply' = (IF noClean THEN reply ELSE clean_reply(reply))
               /\ history' = Append(history, [role |-> "assistant", text |-> reply'])
       /\ spoken' # spoken =>
            /\ pc = "tts"
            /\ LastOf(history).role = "assistant"
            /\ spoken' = LastOf(history).text
            /\ history' = history]_vars

\* C18 witness: a turn is over with the recognized text and the cleaned reply
\* in history and that reply spoken
C18_Witness ==
    /\ pc = "listen_start"
    /\ ~noClean
    /\ history = <<[role |-> "user", text |-> "hi"],
                   [role |-> "assistant", text |-> "Hello"]>>
    /\ spoken = "Hello"

\* C19: when tts_say raises, the assistant turn of the turn is already the
\* last of history, history stays as it is, nothing is left uncaught and the
\* loop goes on to listen for the next utterance.
C19_TtsFailureNotFatal ==
    [][(pc = "tts" /\ ttsRaised') =>
          /\ LastOf(history) = [role |-> "assistant", text |-> reply]
          /\ history' = history
          /\ crash' = crash
          /\ pc' = "listen_start"]_vars

\* C19 witness: tts_say raised and the loop is about to listen again
C19_Witness ==
    /\ pc = "listen_start"
    /\ ttsRaised
    /\ crash = "none"
    /\ Len(history) = 2
    /\ LastOf(history).role = "assistant"


\* the least number of word substitutions, deletions and insertions that turn
\* r into h
RECURSIVE Levenshtein(_, _)
Levenshtein(r, h) ==
    IF r = <<>> THEN Len(h)
    ELSE IF h = <<>> THEN Len(r)
    ELSE LET edit == 1 + Min3(Levenshtein(Tail(r), Tail(h)),
                              Levenshtein(Tail(r), h),
                              Levenshtein(r, Tail(h)))
             keep == Levenshtein(Tail(r), Tail(h))
         IN  IF Head(r) = Head(h) /\ keep <= edit THEN keep ELSE edit

\* wer returned num / den for the reference r and the hypothesis h
WerOf(r, h, num, den) ==
    (pc = "wer_done" /\ reference = r /\ hypothesis = h)
        => (werOut.num = num /\ werOut.den = den)

\* C20: for a reference of at least one word the counts S, D, I of
\* _edit_distance sum to the least word-level edit distance between reference
\* and hypothesis; wer has that distance over the number of reference words:
\* 0 for identical texts, 1/2 for one substitution or one insertion against
\* two words, 1/3 for one deletion against three words.
C20_CountsSumToDistance ==
    /\ (pc = "wer_done" /\ WordsOf(reference) # <<>>) =>
        /\ werOut.S + werOut.D + werOut.I
              = Levenshtein(WordsOf(reference), WordsOf(hypothesis))
        /\ werOut.num = werOut.S + werOut.D + werOut.I
        /\ werOut.den = Len(WordsOf(reference))
        /\ reference = hypothesis => werOut.num = 0
    /\ WerOf("hello world", "hello world", 0, 2)
    /\ WerOf("hello world", "hello there", 1, 2)
    /\ WerOf("hello world", "hello there world", 1, 2)
    /\ WerOf("hello there world", "hello world", 1, 3)

\* C20 witness: wer found the one deletion against a reference of three words
C20_Witness ==
    /\ pc = "wer_done"
    /\ reference = "hello there world"
    /\ hypothesis = "hello world"
    /\ werOut = [S |-> 0, D |-> 1, I |-> 0, num |-> 1, den |-> 3]


\* the roles of h alternate user, assistant, user, ... from the first turn on
Alternates(h) ==
    \A n \in 1..Len(h) :
        h[n].role = (IF n % 2 = 1 THEN "user" ELSE "assistant")

\* what history looks like where main stands: whole turns while it listens,
\* one user turn more while the reply is made, whole turns again once the
\* reply is appended
TurnShape(p, h) ==
    /\ p \in {"listen_start", "listening", "tts"} =>
            Len(h) % 2 = 0 /\ Alternates(h)
    /\ p \in {"query", "stream", "cli", "generated", "reply_ready"} =>
            Len(h) % 2 = 1 /\ Alternates(h)

\* C21: at the start of every iteration history has even length and its roles
\* alternate user, assistant, ... from a user turn on; an iteration appends
\* nothing, or one user turn and then one assistant turn, and no step removes
\* or rewrites an earlier turn.
C21_HistoryAlternates ==
    [][/\ TurnShape(pc, history)
       /\ TurnShape(pc', history')
       /\ Len(history') \in {Len(history), Len(history) + 1}
       /\ SubSeq(history', 1, Len(history)) = history
       /\ (pc = "listening" /\ pc' = "listen_start") => history' = history
       /\ (pc = "tts" /\ pc' = "listen_start") => history' = history]_vars

\* C21 witness: the loop is about to listen again after two whole turns with
\* different replies
C21_Witness ==
    /\ pc = "listen_start"
    /\ Len(history) = 4
    /\ history[3] = [role |-> "user", text |-> "hi"]
    /\ history[4].role = "assistant"
    /\ history[2] # history[4]
    /\ Alternates(history)


\* C22: every assistant turn in history and every text given to tts_say is a
\* non-empty string: after the apology substitution and the cleaning the
\* reply of a turn is never empty, with cleaning on or off.
C22_FinalReplyNeverEmpty ==
    /\ \A n \in 1..Len(history) :
           history[n].role = "assistant" => history[n].text # ""
    /\ pc = "tts" => reply # ""

\* the turns older than the current utterance that the prompt holds
OlderInPrompt ==
    LET older == Len(history) - 1
        k     == IF older < 9 THEN older ELSE 9
    IN  [n \in 1..k |-> Rendered(history[older - k + n])]

\* C23: when the loop sends a prompt, the current user turn is already the
\* last turn of the history the prompt is built from: the utterance stands in
\* the prompt twice, as the last history line and as the User: line, and at
\* most 9 older turns stand before it.
C23_UtteranceTwice ==
    pc = "query" =>
        /\ LastOf(history) = [role |-> "user", text |-> userText]
        /\ Len(OlderInPrompt) <= 9
        /\ prompt = JoinLines(OlderInPrompt
                                \o <<"User: " \o userText,
                                     "User: " \o userText,
                                     "Assistant:">>)

\* C23 witness: a prompt is sent with ten turns before the current utterance
C23_Witness ==
    /\ pc = "query"
    /\ Len(history) = 11
    /\ Len(OlderInPrompt) = 9
    /\ userText = "hi"
    /\ prompt = build_prompt(history, userText)

============================================================================
